---- MODULE Spec2Model ----
(***************************************************************************)
(* A model of indra_db_lite/tables/best_content.py: the two chunked,       *)
(* resumable csv pipelines process_raw_abstracts_csv and                   *)
(* process_raw_fulltexts_csv.                                              *)
(*                                                                         *)
(* The file at inpath is a headerless table; the file at outpath is a      *)
(* sequence of lines (a header line and data rows) or does not exist.  A   *)
(* behaviour is a series of calls of one of the two functions on the same  *)
(* inpath and outpath; the process may be interrupted (killed) at any      *)
(* point of a call, and a transformation may raise.  Every line of the     *)
(* output is written with its line terminator, so `wc -l` counts the       *)
(* lines of the file.  Before the first call outpath holds no file or an   *)
(* empty file.                                                             *)
(*                                                                         *)
(* The input table has at least one row (the raw table of a non-empty      *)
(* text_content query).                                                    *)
(***************************************************************************)
EXTENDS Integers, Sequences, FiniteSets, TLC

\* Bounds of the model.
MaxRows == 4        \* rows of the input table: 1..MaxRows
MaxChunk == 2       \* chunksize: 1..MaxChunk
MaxRuns == 2        \* calls of the function in one behaviour
MaxBad == 1         \* corrupt payloads in the input table
MaxJobs == 2        \* n_jobs: 1..MaxJobs

VARIABLES
    func,               \* the function called: "abstracts" or "fulltexts"
    inpath,             \* the rows of the file at inpath
    outpath,            \* the file at outpath: [exists, lines]
    pc,                 \* position of the current call
    restart,            \* argument restart
    chunksize,          \* argument chunksize
    n_jobs,             \* argument n_jobs (process_raw_fulltexts_csv)
    num_processed_rows, \* the local: <<>> while unbound, <<n>> once assigned
    reader,             \* the TextFileReader: [skiprows, pos]
    chunk,              \* the chunk in flight: input line numbers (0-based)
    pool,               \* the live worker processes: [id, chunk]
    tasks,              \* pool.map: the state of the task of each row of the chunk
    fulltexts,          \* pool.map: the result list, <<>> where no result is set
    finished,           \* the tasks of the chunk in the order they completed
    output,             \* the transformed chunk handed to to_csv
    err,                \* the exception that ended the call, "" if none
    runs,               \* calls started so far
    prev,               \* how the previous call ended: "none", "done", "error", "killed"
    outpath0,           \* the file at outpath when the current call started
    readlog,            \* input line numbers read by the current call, in order
    writes              \* to_csv calls of the current call

vars == <<func, inpath, outpath, pc, restart, chunksize, n_jobs,
          num_processed_rows, reader, chunk, pool, tasks, fulltexts, finished,
          output, err, runs, prev, outpath0, readlog, writes>>

----------------------------------------------------------------------------
(* Payloads and the row transformation.                                    *)

\* A payload is [doc, part, enc]: the text `part` of document `doc` under
\* the encoding layers enc, outermost first.
HexGood == <<"hex", "zlib">>
HexGoodXml == <<"hex", "zlib", "xml">>

\* bytes.fromhex: defined on hex strings only.
CanFromhex(x) == x.enc # <<>> /\ Head(x.enc) = "hex"
Fromhex(x) == [x EXCEPT !.enc = Tail(@)]

\* indra_db.util.helpers.unpack: zlib-decompress and decode.
CanUnpack(b) == b.enc # <<>> /\ Head(b.enc) = "zlib"
unpack(b) == [b EXCEPT !.enc = Tail(@)]

\* universal_extract_paragraphs: the paragraphs of a well-formed document.
CanExtract(t) == t.enc = <<"xml">>
universal_extract_paragraphs(t) ==
    << [doc |-> t.doc, part |-> "paragraph1", enc |-> <<>>],
       [doc |-> t.doc, part |-> "paragraph2", enc |-> <<>>] >>

\* json.dumps of a list of strings.
JsonDumps(list) == [json |-> list]

\* lambda x: unpack(bytes.fromhex(x))
CanDecode(x) == CanFromhex(x) /\ CanUnpack(Fromhex(x))
Decode(x) == unpack(Fromhex(x))

\* _extract_then_dump
CanExtractThenDump(x) == CanDecode(x) /\ CanExtract(Decode(x))
_extract_then_dump(x) == JsonDumps(universal_extract_paragraphs(Decode(x)))

\* The header line to_csv writes.
HeaderLine ==
    [kind |-> "header", text_ref_id |-> 0, tc_id1 |-> 0, tc_id2 |-> <<>>,
     text_type |-> "text_type", content |-> JsonDumps(<<>>)]

\* An abstracts row with the abstract before the title.
AbstractRowSwapped(row) ==
    [kind |-> "row", text_ref_id |-> row.text_ref_id, tc_id1 |-> row.tc_id1,
     tc_id2 |-> <<row.tc_id2>>, text_type |-> "abstract",
     content |-> JsonDumps(<<Decode(row.abstract), Decode(row.title)>>)]

\* One row of the abstracts output.
AbstractRow(row) ==
    [kind |-> "row", text_ref_id |-> row.text_ref_id, tc_id1 |-> row.tc_id1,
     tc_id2 |-> <<row.tc_id2>>, text_type |-> "abstract",
     content |-> JsonDumps(<<Decode(row.title), Decode(row.abstract)>>)]

\* A fulltexts row that keeps the raw payload beside the content.
FulltextOutWithPayload(row, content) ==
    [kind |-> "row", text_ref_id |-> row.text_ref_id, tc_id1 |-> row.tc_id1,
     tc_id2 |-> <<>>, text_type |-> "fulltext", content |-> content,
     fulltext |-> row.fulltext]

\* One row of the fulltexts output, given the value of its content column:
\* the columns text_ref_id, tc_id1, tc_id2 (None), text_type, content.
FulltextOut(row, content) ==
    [kind |-> "row", text_ref_id |-> row.text_ref_id, tc_id1 |-> row.tc_id1,
     tc_id2 |-> <<>>, text_type |-> "fulltext", content |-> content]

\* One row of the fulltexts output.
FulltextRow(row) == FulltextOut(row, _extract_then_dump(row.fulltext))

\* Whether the transformation of a row returns (TRUE) or raises (FALSE).
RowOk(f, row) ==
    IF f = "abstracts"
    THEN CanDecode(row.abstract) /\ CanDecode(row.title)
    ELSE CanExtractThenDump(row.fulltext)

ProcessRow(f, row) == IF f = "abstracts" THEN AbstractRow(row) ELSE FulltextRow(row)

----------------------------------------------------------------------------
(* The input tables.                                                       *)

AbstractEncs == {HexGood, <<"hex">>, <<>>}
FulltextEncs == {HexGoodXml, HexGood, <<"hex">>, <<>>}

RawAbstractRow(i, te, ae) ==
    [text_ref_id |-> i, tc_id1 |-> 10 + i, tc_id2 |-> 20 + i,
     title |-> [doc |-> i, part |-> "title", enc |-> te],
     abstract |-> [doc |-> i, part |-> "abstract", enc |-> ae]]

RawFulltextRow(i, fe) ==
    [text_ref_id |-> i, tc_id1 |-> 10 + i,
     fulltext |-> [doc |-> i, part |-> "fulltext", enc |-> fe]]

RowChoices(f, i) ==
    IF f = "abstracts"
    THEN {RawAbstractRow(i, te, ae) : te \in AbstractEncs, ae \in AbstractEncs}
    ELSE {RawFulltextRow(i, fe) : fe \in FulltextEncs}

BadRows(f, table) == {i \in 1..Len(table) : ~RowOk(f, table[i])}

\* Row i with sound payloads, and its variants with a corrupt payload.
GoodRow(f, i) ==
    IF f = "abstracts" THEN RawAbstractRow(i, HexGood, HexGood)
    ELSE RawFulltextRow(i, HexGoodXml)

CorruptRows(f, i) == {r \in RowChoices(f, i) : ~RowOk(f, r)}

\* The tables of n rows whose corrupt rows are those at the positions B.
TablesWith(f, n, B) ==
    { [i \in 1..n |-> IF i \in B THEN b[i] ELSE GoodRow(f, i)] :
        b \in {c \in [B -> UNION {CorruptRows(f, i) : i \in B}] :
                   \A i \in B : c[i] \in CorruptRows(f, i)} }

\* The input tables: 1..MaxRows rows, at most MaxBad of them corrupt.
Tables(f) ==
    UNION { UNION { TablesWith(f, n, B) :
                      B \in {S \in SUBSET (1..n) : Cardinality(S) <= MaxBad} }
            : n \in 1..MaxRows }

----------------------------------------------------------------------------
(* Files, the reader and the writer.                                       *)

Absent == [exists |-> FALSE, lines |-> <<>>]
File(ls) == [exists |-> TRUE, lines |-> ls]

\* _get_line_count: wc -l
_get_line_count(file) == Len(file.lines)

\* range(a, b)
Range(a, b) == {j \in a..(b - 1) : TRUE}

\* os.remove
Remove(file) == Absent

\* pd.read_csv is given names=[...], so the file has no header row and its
\* line 0 is the first data row; skiprows is a set of line numbers of the
\* file, counted from 0.  TakeLines gives the line numbers of the next n
\* rows the reader parses, from line pos on, of a file of total lines:
\* lines in skiprows are passed over and do not count towards n.
RECURSIVE TakeLines(_, _, _, _)
TakeLines(pos, skiprows, total, n) ==
    IF n = 0 \/ pos >= total THEN <<>>
    ELSE IF pos \in skiprows THEN TakeLines(pos + 1, skiprows, total, n)
    ELSE <<pos>> \o TakeLines(pos + 1, skiprows, total, n - 1)

\* A reader that yields full chunks only.
NextChunkFullOnly(rd, total, n) ==
    LET ls == TakeLines(rd.pos, rd.skiprows, total, n)
    IN  IF Len(ls) < n THEN <<>> ELSE ls

\* A reader that yields one row more than the chunk size.
NextChunkOver(rd, total, n) == TakeLines(rd.pos, rd.skiprows, total, n + 1)

\* A reader that yields one row at a time, whatever the chunk size.
NextChunkOneRow(rd, total, n) == TakeLines(rd.pos, rd.skiprows, total, 1)

\* for chunk in reader: the next chunk.
NextChunk(rd, total, n) == TakeLines(rd.pos, rd.skiprows, total, n)

\* A writer that adds the header to every chunk.
HeaderAlways(file) == TRUE

\* header=not os.path.exists(outpath)
HeaderFlag(file) == ~file.exists

\* A writer that loses the last row of what it is given.
to_csv_partial(file, rows, header) ==
    File(file.lines \o (IF header THEN <<HeaderLine>> ELSE <<>>)
                    \o SubSeq(rows, 1, Len(rows) - 1))

\* A writer that truncates the file before it writes.
to_csv_truncating(file, rows, header) ==
    File((IF header THEN <<HeaderLine>> ELSE <<>>) \o rows)

\* DataFrame.to_csv(outpath, mode='a', header=..., index=False)
to_csv(file, rows, header) ==
    File(file.lines \o (IF header THEN <<HeaderLine>> ELSE <<>>) \o rows)

\* Whether the transformation of every row of the chunk returns.
ChunkOk(f, ls) == \A k \in 1..Len(ls) : RowOk(f, inpath[ls[k] + 1])

\* The transformed rows of the chunk, in the order of the chunk.
Transform(f, ls) == [k \in 1..Len(ls) |-> ProcessRow(f, inpath[ls[k] + 1])]

----------------------------------------------------------------------------
(* The calls.                                                              *)

Init ==
    /\ func \in {"abstracts", "fulltexts"}
    /\ inpath \in Tables(func)
    /\ outpath \in {Absent, File(<<>>)}
    /\ pc = "idle"
    /\ restart = FALSE
    /\ chunksize = 1
    /\ n_jobs = 1
    /\ num_processed_rows = <<>>
    /\ reader = [skiprows |-> {}, pos |-> 0]
    /\ chunk = <<>>
    /\ pool = {}
    /\ tasks = <<>>
    /\ fulltexts = <<>>
    /\ finished = <<>>
    /\ output = <<>>
    /\ err = ""
    /\ runs = 0
    /\ prev = "none"
    /\ outpath0 = outpath
    /\ readlog = <<>>
    /\ writes = 0

\* A call of the function: process_raw_abstracts_csv(inpath, outpath,
\* chunksize, restart) or process_raw_fulltexts_csv(inpath, outpath,
\* chunksize, n_jobs, restart).
Invoke ==
    /\ pc \in {"idle", "done", "error", "killed"}
    /\ runs < MaxRuns
    /\ \E r \in BOOLEAN, c \in 1..MaxChunk,
          j \in (IF func = "fulltexts" THEN 1..MaxJobs ELSE {1}) :
          /\ restart' = r
          /\ chunksize' = c
          /\ n_jobs' = j
    /\ pc' = "preamble"
    /\ prev' = IF pc = "idle" THEN "none" ELSE pc
    /\ runs' = runs + 1
    /\ num_processed_rows' = <<>>
    /\ reader' = [skiprows |-> {}, pos |-> 0]
    /\ chunk' = <<>>
    /\ tasks' = <<>>
    /\ fulltexts' = <<>>
    /\ finished' = <<>>
    /\ output' = <<>>
    /\ err' = ""
    /\ outpath0' = outpath
    /\ readlog' = <<>>
    /\ writes' = 0
    /\ UNCHANGED <<func, inpath, outpath, pool>>

\* The value of num_processed_rows when pd.read_csv is reached.
SkipCount(f, file, r) ==
    IF file.exists /\ r THEN <<_get_line_count(file)>>
    ELSE IF f = "fulltexts" THEN <<0>>
    ELSE <<>>

\* A preamble that never removes the file.
AfterPreambleKeep(file, r) == file

\* The file at outpath when pd.read_csv is reached.
AfterPreamble(file, r) == IF file.exists /\ ~r THEN Remove(file) ELSE file

\* Lines 81-88 (abstracts) and 192-200 (fulltexts).
Preamble ==
    /\ pc = "preamble"
    /\ num_processed_rows' = SkipCount(func, outpath, restart)
    /\ outpath' = AfterPreamble(outpath, restart)
    /\ pc' = "open"
    /\ UNCHANGED <<func, inpath, restart, chunksize, n_jobs, reader, chunk,
                   pool, tasks, fulltexts, finished, output, err, runs, prev,
                   outpath0, readlog, writes>>

\* skiprows=range(1, num_processed_rows + 1)
Skiprows(n) == Range(1, n + 1)

\* pd.read_csv(inpath, chunksize=..., skiprows=..., names=...): evaluating
\* the unbound local raises UnboundLocalError.
OpenReader ==
    /\ pc = "open"
    /\ IF num_processed_rows = <<>>
       THEN /\ pc' = "error"
            /\ err' = "UnboundLocalError"
            /\ UNCHANGED reader
       ELSE /\ pc' = "read"
            /\ reader' = [skiprows |-> Skiprows(num_processed_rows[1]), pos |-> 0]
            /\ UNCHANGED err
    /\ UNCHANGED <<func, inpath, outpath, restart, chunksize, n_jobs,
                   num_processed_rows, chunk, pool, tasks, fulltexts, finished,
                   output, runs, prev, outpath0, readlog, writes>>

\* for chunk in reader: the next chunk, or the end of the loop when the
\* reader is exhausted.  (Line 0 is never in skiprows, so the first chunk of
\* a call is never empty.)
ReadChunk ==
    /\ pc = "read"
    /\ LET ls == NextChunk(reader, Len(inpath), chunksize) IN
       IF ls = <<>>
       THEN /\ pc' = "done"
            /\ chunk' = <<>>
            /\ UNCHANGED <<reader, readlog>>
       ELSE /\ pc' = "map"
            /\ chunk' = ls
            /\ reader' = [reader EXCEPT !.pos = ls[Len(ls)] + 1]
            /\ readlog' = readlog \o ls
    /\ output' = <<>>
    /\ UNCHANGED <<func, inpath, outpath, restart, chunksize, n_jobs,
                   num_processed_rows, pool, tasks, fulltexts, finished, err,
                   runs, prev, outpath0, writes>>

\* The input rows of ls whose transformation returns.
GoodLines(f, ls) == SelectSeq(ls, LAMBDA l : RowOk(f, inpath[l + 1]))

\* A chunk transformation that passes over the rows that raise.
MapChunkSkipBad(f, ls) == [raised |-> FALSE, rows |-> Transform(f, GoodLines(f, ls))]

\* The transformation of a chunk in line: lines 98-111 (abstracts).  It
\* returns the transformed rows, or raises when the transformation of any
\* row raises.
MapChunk(f, ls) ==
    IF ChunkOk(f, ls)
    THEN [raised |-> FALSE, rows |-> Transform(f, ls)]
    ELSE [raised |-> TRUE, rows |-> <<>>]

\* process_raw_abstracts_csv: the body of the loop up to to_csv.  An
\* exception propagates out of the call: to_csv is not reached for this
\* chunk.
Map ==
    /\ pc = "map"
    /\ func = "abstracts"
    /\ LET res == MapChunk(func, chunk) IN
       IF res.raised
       THEN /\ pc' = "error"
            /\ err' = "TransformError"
            /\ UNCHANGED output
       ELSE /\ pc' = "write"
            /\ output' = res.rows
            /\ UNCHANGED err
    /\ UNCHANGED <<func, inpath, outpath, restart, chunksize, n_jobs,
                   num_processed_rows, reader, chunk, pool, tasks, fulltexts,
                   finished, runs, prev, outpath0, readlog, writes>>

(* process_raw_fulltexts_csv: `with Pool(n_jobs) as pool: fulltexts =      *)
(* pool.map(_extract_then_dump, chunk.fulltext)`.  Pool.map cuts the rows  *)
(* into tasks of ceil(len / (4 * n_jobs)) rows, which is one row per task  *)
(* for the chunks of this model; the workers take the tasks in order and   *)
(* complete them in any order; every result is stored at the index of its  *)
(* task; map returns, or raises the first exception, once no task is left. *)
(* Leaving the with block terminates the pool.                             *)

\* The number of the chunk in flight, from 1.
ChunkNo == writes + 1

\* Pool(n): n worker processes, started for chunk k.
NewPool(n, k) == {[id |-> w, chunk |-> k] : w \in 1..n}

\* The tasks not yet taken by a worker.
Queued(ts) == {i \in 1..Len(ts) : ts[i] = "queued"}

\* The tasks a worker is running: one task per busy worker.
Running(ts) == {i \in 1..Len(ts) : ts[i] = "running"}

\* The least element of a non-empty set of numbers.
Least(S) == CHOOSE i \in S : \A j \in S : i <= j

\* The first index of values that holds no result.
FirstEmpty(values) == Least({k \in 1..Len(values) : values[k] = <<>>})

\* A result list filled in the order the tasks complete.
StoreInCompletionOrder(values, i, v) == [values EXCEPT ![FirstEmpty(values)] = <<v>>]

\* MapResult._set for a task that returned: the value goes to the index of
\* the task.
StoreResult(values, i, v) == [values EXCEPT ![i] = <<v>>]

\* A result that is ready as soon as one task has completed.
MapReadyOnFirst(ts) == \E i \in 1..Len(ts) : ts[i] \in {"done", "failed"}

\* MapResult: the result is ready once no task is left; an interpreter
\* older than 3.8 also makes it ready at the first task that raised.
MapReady(ts) ==
    \/ \A i \in 1..Len(ts) : ts[i] \in {"done", "failed"}
    \/ \E i \in 1..Len(ts) : ts[i] = "failed"

\* A pool that is left without stopping its workers.
PoolLeave(ws, k) == ws

\* Pool.__exit__: terminate(), which stops every worker of the pool.
PoolExit(ws, k) == {w \in ws : w.chunk # k}

\* The value of a cell of the content column: None where no result is set.
Cell(slot) == IF slot = <<>> THEN [none |-> TRUE] ELSE slot[1]

\* chunk.loc[:, 'content'] = fulltexts, and the five columns of output:
\* the k-th value goes to the k-th row of the chunk.
PoolOutput(ls, values) ==
    [k \in 1..Len(ls) |-> FulltextOut(inpath[ls[k] + 1], Cell(values[k]))]

\* with Pool(n_jobs) as pool: pool.map(...) is called.
PoolStart ==
    /\ pc = "map"
    /\ func = "fulltexts"
    /\ pool' = pool \cup NewPool(n_jobs, ChunkNo)
    /\ tasks' = [i \in 1..Len(chunk) |-> "queued"]
    /\ fulltexts' = [i \in 1..Len(chunk) |-> <<>>]
    /\ finished' = <<>>
    /\ pc' = "pool"
    /\ UNCHANGED <<func, inpath, outpath, restart, chunksize, n_jobs,
                   num_processed_rows, reader, chunk, output, err, runs, prev,
                   outpath0, readlog, writes>>

\* An idle worker of the pool takes the next task of the queue.  Which of
\* the idle workers takes it makes no difference to the call: the state
\* keeps the tasks that are running, one per busy worker.
WorkerTake ==
    /\ pc = "pool"
    /\ Queued(tasks) # {}
    /\ Cardinality(Running(tasks)) < Cardinality({w \in pool : w.chunk = ChunkNo})
    /\ tasks' = [tasks EXCEPT ![Least(Queued(tasks))] = "running"]
    /\ UNCHANGED <<func, inpath, outpath, pc, restart, chunksize, n_jobs,
                   num_processed_rows, reader, chunk, pool, fulltexts, finished,
                   output, err, runs, prev, outpath0, readlog, writes>>

\* A worker completes its task: _extract_then_dump returns or raises.
WorkerFinish ==
    /\ pc = "pool"
    /\ \E i \in Running(tasks) :
          LET x == inpath[chunk[i] + 1].fulltext IN
          /\ IF CanExtractThenDump(x)
             THEN /\ tasks' = [tasks EXCEPT ![i] = "done"]
                  /\ fulltexts' = StoreResult(fulltexts, i, _extract_then_dump(x))
             ELSE /\ tasks' = [tasks EXCEPT ![i] = "failed"]
                  /\ UNCHANGED fulltexts
          /\ finished' = Append(finished, i)
    /\ UNCHANGED <<func, inpath, outpath, pc, restart, chunksize, n_jobs,
                   num_processed_rows, reader, chunk, pool, output, err, runs,
                   prev, outpath0, readlog, writes>>

\* pool.map returns or raises, the with block is left, and the columns of
\* output are set (lines 211-221).  An exception propagates out of the
\* call: to_csv is not reached for this chunk.
PoolJoin ==
    /\ pc = "pool"
    /\ MapReady(tasks)
    /\ pool' = PoolExit(pool, ChunkNo)
    /\ IF \E i \in 1..Len(tasks) : tasks[i] = "failed"
       THEN /\ pc' = "error"
            /\ err' = "TransformError"
            /\ UNCHANGED output
       ELSE /\ pc' = "write"
            /\ output' = PoolOutput(chunk, fulltexts)
            /\ UNCHANGED err
    /\ UNCHANGED <<func, inpath, outpath, restart, chunksize, n_jobs,
                   num_processed_rows, reader, chunk, tasks, fulltexts,
                   finished, runs, prev, outpath0, readlog, writes>>

\* output.to_csv(outpath, mode='a', header=not os.path.exists(outpath))
WriteChunk ==
    /\ pc = "write"
    /\ outpath' = to_csv(outpath, output, HeaderFlag(outpath))
    /\ writes' = writes + 1
    /\ pc' = "read"
    /\ UNCHANGED <<func, inpath, restart, chunksize, n_jobs, num_processed_rows,
                   reader, chunk, pool, tasks, fulltexts, finished, output, err,
                   runs, prev, outpath0, readlog>>

\* The process is killed during the call, its workers with it: its memory
\* is lost, the file at outpath stays as the last completed to_csv left it.
Interrupt ==
    /\ pc \in {"preamble", "open", "read", "map", "pool", "write"}
    /\ pc' = "killed"
    /\ chunk' = <<>>
    /\ pool' = {}
    /\ tasks' = <<>>
    /\ fulltexts' = <<>>
    /\ finished' = <<>>
    /\ output' = <<>>
    /\ UNCHANGED <<func, inpath, outpath, restart, chunksize, n_jobs,
                   num_processed_rows, reader, err, runs, prev, outpath0,
                   readlog, writes>>

Next ==
    \/ Invoke \/ Preamble \/ OpenReader \/ ReadChunk \/ Map
    \/ PoolStart \/ WorkerTake \/ WorkerFinish \/ PoolJoin
    \/ WriteChunk \/ Interrupt

Spec == Init /\ [][Next]_vars

----------------------------------------------------------------------------
(* Definitions the properties are stated with.                             *)

\* The input line numbers 0 .. n-1.
FirstLines(n) == [k \in 1..n |-> k - 1]

\* The complete output for the first n rows of the input: the header and
\* one transformed row per input row, in input order.
Expected(n) == <<HeaderLine>> \o Transform(func, FirstLines(n))

\* No payload of the input is corrupt.
AllGood == BadRows(func, inpath) = {}

\* The current call has passed its preamble and has not been killed.
PastPreamble == pc \in {"open", "read", "map", "pool", "write", "done", "error"}

\* The current call has opened the reader.
PastOpen ==
    \/ pc \in {"read", "map", "pool", "write", "done"}
    \/ (pc = "error" /\ err = "TransformError")

\* The number of data rows of a file: its lines less the header line.
DataRows(file) == IF file.lines = <<>> THEN 0 ELSE Len(file.lines) - 1

\* The number of header lines among ls.
HeaderCount(ls) == Cardinality({k \in 1..Len(ls) : ls[k] = HeaderLine})

\* The input lines of the chunks the current call has completed: those
\* read, less the chunk in flight.
DoneLines ==
    IF pc \in {"map", "pool", "write", "error"}
    THEN SubSeq(readlog, 1, Len(readlog) - Len(chunk))
    ELSE readlog

\* The current call began as a fresh run: nothing at outpath, or restart
\* not set.
FreshRun == runs > 0 /\ (~outpath0.exists \/ ~restart)

\* The file a run leaves that starts with no output file and reads the
\* input in chunks of n from the reader rd on, all rows transforming.
RECURSIVE RunFrom(_, _, _)
RunFrom(file, rd, n) ==
    LET ls == NextChunk(rd, Len(inpath), n)
    IN  IF ls = <<>> THEN file
        ELSE RunFrom(to_csv(file, Transform(func, ls), HeaderFlag(file)),
                     [rd EXCEPT !.pos = ls[Len(ls)] + 1], n)

FirstEverRun(n) == RunFrom(Absent, [skiprows |-> {}, pos |-> 0], n)

----------------------------------------------------------------------------
(* The properties.                                                         *)

\* C1: when a run was interrupted with the output holding the header and
\* the rows of chunks 1..K (some rows of the input still to come), and the
\* function is called again with restart=True on that output and completes,
\* the output holds the header and every input row exactly once, in input
\* order.
C1_ChunkAtomicResume ==
    ( /\ pc = "done" /\ restart /\ prev = "killed" /\ AllGood
      /\ \E k \in 1..(Len(inpath) - 1) : outpath0 = File(Expected(k)) )
    => outpath = File(Expected(Len(inpath)))

\* C2: with restart=True and an existing output file, the skip count is the
\* number of data rows of that file: its line count minus one for the
\* header, zero for an empty file.
C2_SkipIsDataRowCount ==
    ( /\ PastPreamble /\ restart /\ outpath0.exists
      /\ (outpath0.lines # <<>> => outpath0.lines[1] = HeaderLine) )
    => num_processed_rows = <<DataRows(outpath0)>>

\* C3: with skip count k the reader discards exactly the input rows
\* 0..k-1: the j-th row it reads (from 0) is input row k + j, so for k >= 1
\* input row 0 is not read again.
C3_ReaderSkipsLeadingRows ==
    PastOpen
    => \A j \in 1..Len(readlog) : readlog[j] = num_processed_rows[1] + (j - 1)

\* C4: after a completed run (output = header + N rows), a call with
\* restart=True on the same input writes nothing and leaves the output
\* unchanged.
C4_IdempotentResume ==
    ( /\ runs > 1 /\ restart /\ prev = "done" /\ AllGood
      /\ outpath0 = File(Expected(Len(inpath))) )
    => (writes = 0 /\ outpath = outpath0)

\* C5: when a run without restart finishes without error, every row of the
\* input has been transformed and the output is the header followed by one
\* transformed row per input row, each input row once, in input order, for
\* every chunksize.
C5_CompleteFreshRun ==
    (pc = "done" /\ ~restart)
    => (AllGood /\ outpath = File(Expected(Len(inpath))))

C5_Witness ==
    /\ pc = "done" /\ ~restart
    /\ Len(inpath) = 3 /\ chunksize = 2 /\ writes = 2

\* C6: process_raw_abstracts_csv called with restart=False where a file
\* exists at outpath overwrites it: after the call the output is the header
\* followed by one transformed row per input row.
C6_AbstractsOverwrite ==
    ( /\ func = "abstracts" /\ runs > 0 /\ ~restart /\ outpath0.exists
      /\ AllGood /\ pc \in {"done", "error"} )
    => outpath = File(Expected(Len(inpath)))

\* C7: in both functions, when no file exists at outpath at the start of
\* the call, the skip count is defined and 0, and reading begins at input
\* row 0.
C7_SkipZeroWithoutOutput ==
    (runs > 0 /\ PastPreamble /\ ~outpath0.exists)
    => /\ num_processed_rows = <<0>>
       /\ err # "UnboundLocalError"
       /\ (readlog # <<>> => readlog[1] = 0)

\* C8: process_raw_fulltexts_csv called with restart=False where a file
\* exists at outpath removes the file before any input row is read, and on
\* completion the output is the one a run on the same input leaves that
\* started with no output file.
C8_FulltextsOverwrite ==
    (func = "fulltexts" /\ runs > 0 /\ ~restart /\ outpath0.exists)
    => /\ (PastPreamble /\ writes = 0) => ~outpath.exists
       /\ pc = "done" => (AllGood /\ outpath = FirstEverRun(chunksize))

C8_Witness ==
    /\ func = "fulltexts" /\ ~restart /\ pc = "done"
    /\ outpath0.exists /\ outpath0.lines # <<>>
    /\ writes >= 2

\* C9: in a run that starts with no output file and writes two or more
\* chunks, the header is written once, as the first line, and no later
\* write adds a header; in a restart run that starts with an existing
\* output file no header is written.
C9_HeaderSingularity ==
    /\ (runs > 0 /\ ~outpath0.exists /\ writes >= 2)
       => (HeaderCount(outpath.lines) = 1 /\ outpath.lines[1] = HeaderLine)
    /\ (runs > 0 /\ restart /\ outpath0.exists)
       => HeaderCount(outpath.lines) = HeaderCount(outpath0.lines)

C9_Witness ==
    /\ runs > 0 /\ ~outpath0.exists /\ writes >= 2
    /\ Len(outpath.lines) >= 3

\* C10 (as claimed): when the transformation of a row of chunk K raises,
\* the run halts and leaves the header followed by the complete rows of
\* chunks 1..K-1.  Stated for fresh runs, where the chunks of the run are
\* the chunks of the table.
C10_FailureLeavesHeaderAndChunks ==
    (FreshRun /\ pc = "error" /\ err = "TransformError")
    => outpath = File(<<HeaderLine>> \o Transform(func, DoneLines))

\* The file a run leaves after appending the rows of the input lines ls,
\* chunk by chunk, to the file base its preamble left.
AfterChunks(base, ls) ==
    IF ls = <<>> THEN base
    ELSE File(base.lines \o (IF base.exists THEN <<>> ELSE <<HeaderLine>>)
                         \o Transform(func, ls))

\* C10 (amended): when the transformation of a row of chunk K raises, the
\* run halts with the error and appends no row of chunk K; the output is as
\* the write of chunk K-1 left it: for K >= 2 what the preamble left (plus
\* the header, if that was no file) followed by the complete rows of chunks
\* 1..K-1, and for K = 1 what the preamble left, which is no file at all
\* when the run began without a file or without restart.
C10_FailureContainment ==
    (chunk # <<>> /\ ~ChunkOk(func, chunk) /\ pc \notin {"map", "pool"})
    => /\ pc = "error" /\ err = "TransformError"
       /\ outpath = AfterChunks(AfterPreamble(outpath0, restart), DoneLines)

C10_Witness ==
    /\ pc = "error" /\ err = "TransformError"
    /\ writes >= 1 /\ ~outpath0.exists
    /\ Len(chunk) = 2 /\ RowOk(func, inpath[chunk[1] + 1])

\* The rows the last to_csv of the current call wrote, or is about to write.
LastWritten ==
    IF pc = "write" THEN output
    ELSE SubSeq(outpath.lines, Len(outpath.lines) - Len(chunk) + 1, Len(outpath.lines))

\* C11: for a fulltext chunk R1..Rn mapped over 2 or more workers, whatever
\* the order in which the workers complete, the i-th row written carries
\* the ref_id and the content id of Ri and, as content, the transformation
\* of the payload of Ri; the rows are written in the order R1..Rn.
C11_OrderPreserved ==
    (func = "fulltexts" /\ n_jobs >= 2 /\ chunk # <<>> /\ pc \in {"write", "read"})
    => /\ Len(LastWritten) = Len(chunk)
       /\ \A i \in 1..Len(chunk) :
             LET Ri == inpath[chunk[i] + 1] IN
             /\ LastWritten[i].text_ref_id = Ri.text_ref_id
             /\ LastWritten[i].tc_id1 = Ri.tc_id1
             /\ LastWritten[i].content = _extract_then_dump(Ri.fulltext)

\* A chunk of two rows was written whose second row completed first.
C11_Witness ==
    /\ func = "fulltexts" /\ n_jobs >= 2
    /\ pc = "read" /\ writes >= 1
    /\ Len(chunk) = 2 /\ finished = <<2, 1>>

\* The smaller of two numbers.
Min(a, b) == IF a <= b THEN a ELSE b

\* C12: in a fresh run, at every point between the write of chunk K and the
\* read of chunk K+1, the output holds the header and exactly the complete
\* transformed rows of chunks 1..K: the first min(K * chunksize, N) rows of
\* the transformed input, never a part of a chunk.
C12_CrashBetweenChunks ==
    (FreshRun /\ pc = "read" /\ writes >= 1)
    => outpath = File(Expected(Min(writes * chunksize, Len(inpath))))

\* Between chunks after the second write, the second chunk being short.
C12_Witness ==
    /\ FreshRun /\ func = "fulltexts"
    /\ pc = "read" /\ writes = 2
    /\ chunksize = 2 /\ Len(inpath) = 3

\* The text a payload encodes, all encoding taken off.
Plain(x) == [x EXCEPT !.enc = <<>>]

Paragraphs(x) ==
    << [doc |-> x.doc, part |-> "paragraph1", enc |-> <<>>],
       [doc |-> x.doc, part |-> "paragraph2", enc |-> <<>>] >>

\* C14: every row process_raw_fulltexts_csv writes for an input row
\* (ref_id, content id, fulltext_hex) is (ref_id, content id, absent,
\* "fulltext", serialize(the paragraphs extracted from the decompressed
\* payload)): the secondary id is absent and the row has no other column,
\* so the raw payload is not written.
C14_FulltextRowShape ==
    (func = "fulltexts" /\ chunk # <<>> /\ pc \in {"write", "read"})
    => /\ Len(LastWritten) = Len(chunk)
       /\ \A i \in 1..Len(chunk) :
             LET Ri == inpath[chunk[i] + 1] IN
             /\ LastWritten[i] =
                    [kind |-> "row", text_ref_id |-> Ri.text_ref_id,
                     tc_id1 |-> Ri.tc_id1, tc_id2 |-> <<>>,
                     text_type |-> "fulltext",
                     content |-> [json |-> Paragraphs(Ri.fulltext)]]
             /\ "fulltext" \notin DOMAIN LastWritten[i]

\* A chunk of two fulltexts was written.
C14_Witness ==
    /\ func = "fulltexts" /\ pc = "read" /\ writes >= 1
    /\ Len(chunk) = 2
    /\ outpath.lines[Len(outpath.lines)].text_type = "fulltext"

\* C15: in the fulltext pipeline chunk K is appended only after the result
\* of every row of chunk K has been collected from the workers: whenever
\* the rows of a chunk are about to be written or have just been written,
\* no row of that chunk is pending (queued or running) or failed.
C15_AwaitAllBeforeWrite ==
    (func = "fulltexts" /\ chunk # <<>> /\ pc \in {"write", "read"})
    => /\ Len(tasks) = Len(chunk)
       /\ \A i \in 1..Len(chunk) : tasks[i] = "done" /\ fulltexts[i] # <<>>

\* Two workers have both delivered and the chunk of two rows is about to
\* be written.
C15_Witness ==
    /\ func = "fulltexts" /\ pc = "write"
    /\ n_jobs = 2 /\ Len(chunk) = 2
    /\ tasks = <<"done", "done">>

\* The chunks that have a pool.
Pools == {w.chunk : w \in pool}

\* C16: each chunk gets a new pool of n_jobs workers, which is shut down
\* before the chunk is written and before the next chunk is read: workers
\* exist only while their chunk is being mapped, they are then the n_jobs
\* workers created for that chunk, there are never two pools, and no
\* worker is left when its chunk is written or any later chunk is read.
C16_PoolLifetime ==
    /\ Cardinality(Pools) <= 1
    /\ \A w \in pool : w.chunk = ChunkNo /\ pc = "pool" /\ func = "fulltexts"
    /\ pc = "pool" => {w.id : w \in pool} = 1..n_jobs /\ Cardinality(pool) = n_jobs
    /\ pc \in {"read", "map", "write", "done", "error"} => pool = {}

\* The pool of the second chunk of a call is at work, two workers busy.
C16_Witness ==
    /\ pc = "pool" /\ writes = 1 /\ n_jobs = 2
    /\ Pools = {2}
    /\ Cardinality(Running(tasks)) = 2

\* The number of rows the current call has appended to the output: the
\* lines of the file beyond those its preamble left and beyond the header,
\* if this call wrote it.
Appended ==
    LET base == AfterPreamble(outpath0, restart) IN
    IF writes = 0 THEN 0
    ELSE Len(outpath.lines) - Len(base.lines) - (IF base.exists THEN 0 ELSE 1)

\* The rows the current call has read and not yet appended.
InFlight == SubSeq(readlog, Appended + 1, Len(readlog))

\* C17: the rows read and not yet appended to the output belong to a
\* single chunk, the one being transformed, and are at most chunksize; the
\* next chunk is read only when every row read so far has been appended.
C17_OneChunkInFlight ==
    PastPreamble
    => /\ Appended <= Len(readlog)
       /\ Len(InFlight) <= chunksize
       /\ InFlight # <<>> => InFlight = chunk /\ pc \in {"map", "pool", "write", "error"}
       /\ pc \in {"read", "done"} => InFlight = <<>>

\* The second chunk of a call, of two rows, is in flight after the first
\* was appended.
C17_Witness ==
    /\ pc \in {"map", "pool", "write"} /\ writes = 1
    /\ chunksize = 2 /\ Len(readlog) = 4 /\ Len(InFlight) = 2

\* Whether the sequence p is a prefix of the sequence q.
IsPrefix(p, q) == Len(p) <= Len(q) /\ SubSeq(q, 1, Len(p)) = p

\* C18: in a run with restart set that starts with an existing output
\* file, the lines present at the start are never modified, reordered or
\* removed: in every later state of the run, also after a failure or an
\* interruption, the file exists and its initial lines are a prefix of
\* its lines.
C18_AppendOnlyOnRestart ==
    (runs > 0 /\ restart /\ outpath0.exists)
    => outpath.exists /\ IsPrefix(outpath0.lines, outpath.lines)

\* A restart run over a file with lines appended a chunk and then failed.
C18_Witness ==
    /\ runs > 0 /\ restart /\ outpath0.exists
    /\ outpath0.lines # <<>>
    /\ writes >= 1
    /\ pc = "error" /\ err = "TransformError"

----------------------------------------------------------------------------
(* Runs of process_raw_fulltexts_csv over a table none of whose rows       *)
(* fails.  The interpreter keeps executing the call while it has a step to *)
(* take, and every task handed to a worker ends (the transformations are   *)
(* terminating functions), so the steps of a call are weakly fair; calling *)
(* the function and killing the process are up to the environment.         *)

FulltextsInit == Init /\ func = "fulltexts" /\ AllGood

Step ==
    \/ Preamble \/ OpenReader \/ ReadChunk
    \/ PoolStart \/ WorkerTake \/ WorkerFinish \/ PoolJoin
    \/ WriteChunk

FulltextsNext == Invoke \/ Step \/ Interrupt

FulltextsSpec == FulltextsInit /\ [][FulltextsNext]_vars /\ WF_vars(Step)

\* M: the rows of the input that remain after the skip.
Remaining == Cardinality((0..(Len(inpath) - 1)) \ reader.skiprows)

\* ceil(a / b)
CeilDiv(a, b) == (a + b - 1) \div b

\* The writes of a finished call over the M remaining rows, and the rows
\* each write appends.
C19_WriteCount ==
    (func = "fulltexts" /\ AllGood /\ PastOpen)
    => /\ pc = "done" => writes = CeilDiv(Remaining, chunksize)
       /\ pc = "write" =>
             Len(output) = (IF writes + 1 < CeilDiv(Remaining, chunksize)
                            THEN chunksize
                            ELSE Remaining - writes * chunksize)
       /\ pc \in {"read", "done"} => Appended = Min(writes * chunksize, Remaining)

\* C19: a call of process_raw_fulltexts_csv over M rows remaining after the
\* skip, none of which fails, eventually ends: it returns unless the
\* process is killed, and it returns after exactly ceil(M / chunksize)
\* writes; every write but the last appends exactly chunksize rows and the
\* last appends the rows that remain.
C19_TerminationAndWriteCount ==
    /\ []C19_WriteCount
    /\ (pc = "preamble") ~> (pc \in {"done", "killed"})

\* A call over three rows in chunks of two has ended after two writes, the
\* second of one row.
C19_Witness ==
    /\ func = "fulltexts" /\ pc = "done"
    /\ Remaining = 3 /\ chunksize = 2
    /\ writes = 2 /\ Appended = 3

====
